---- MODULE Spec2Model ----
(***************************************************************************)
(* Dictionary manager of the Cairo VM hint processor                       *)
(* (src/hint_processor/builtin_hint_processor/dict_manager.rs).            *)
(*                                                                         *)
(* State: the manager's trackers map (segment index -> DictTracker), the   *)
(* segment counter of the VirtualMachine the manager allocates from, and   *)
(* the call that was made last together with what it returned.             *)
(*                                                                         *)
(* The field prime and the conformance check of the Felt backend           *)
(* (felt/src/lib.rs) are modelled at the end of the state: the reading of  *)
(* PRIME_STR and FIELD, and the type check of assert_felt_impl!(Felt).     *)
(***************************************************************************)
EXTENDS Integers, FiniteSets, Sequences, TLC

VARIABLES
    trackers,       \* DictManager.trackers : HashMap<isize, DictTracker>
    num_segments,   \* vm.segments.num_segments
    allocator,      \* "fresh": add_memory_segment returns index num_segments;
                    \* "any":   the allocator may hand out any index
    materialized,   \* history: <<segment, key>> pairs a get_value miss
                    \* inserted with the default and insert_value has not
                    \* overwritten since
    last,           \* the call whose result the caller holds: [op, arg, result]
                    \* (op "none" between calls)
    calls,          \* number of calls made so far
    prime,          \* reading PRIME_STR and writing FIELD as a numeral:
                    \* [pos, acc, out]
    build           \* type check of assert_felt_impl!(Felt):
                    \* [status, backend, next]

vars == <<trackers, num_segments, allocator, materialized, last, calls,
          prime, build>>

----------------------------------------------------------------------------
(* Bounds *)

MaxSegments == 2    \* the allocator hands out at most this many segments
MaxOffset == 1      \* offsets of dictionary pointers are 0..MaxOffset
MaxCalls == 3       \* length of the call sequences explored

\* Felt: the code only clones, hashes and compares the keys and values, so
\* two distinct field elements stand for all of them.
Felts == {0, 1}

\* Segment indices an allocator can return: the real ones and one temporary
\* (negative) one.
SegmentIndices == (0 - 1)..(MaxSegments - 1)

Offsets == 0..MaxOffset

\* HashMap<Felt, Felt>: finite partial maps.
FeltMaps == UNION {[ks -> Felts] : ks \in SUBSET Felts}

\* The maps a caller passes as initial_dict: the empty map and the maps with
\* one entry, as in the tests.
InitialDicts == {m \in FeltMaps : Cardinality(DOMAIN m) <= 1}

Relocatable(segment_index, offset) ==
    [segment_index |-> segment_index, offset |-> offset]

Pointers == {Relocatable(s, o) : s \in SegmentIndices, o \in Offsets}

----------------------------------------------------------------------------
(* Option and Result values *)

None == [tag |-> "None"]
Some(v) == [tag |-> "Some", val |-> v]

Ok(v) == [tag |-> "Ok", val |-> v]
Err(tag, v) == [tag |-> tag, val |-> v]

----------------------------------------------------------------------------
(* std::collections::HashMap operations used by the code *)

\* HashMap::contains_key
contains_key(map, key) == key \in DOMAIN map

\* HashMap::insert: binds key to value, replacing an earlier binding
HashMap_insert(map, key, value) ==
    [k \in (DOMAIN map) \cup {key} |-> IF k = key THEN value ELSE map[k]]

\* HashMap::get
HashMap_get(map, key) ==
    IF key \in DOMAIN map THEN Some(map[key]) ELSE None

\* HashMap::entry(key).or_insert_with(f): the map after the call
or_insert_with(map, key, value) ==
    IF key \in DOMAIN map THEN map ELSE HashMap_insert(map, key, value)

HashMap_new == [k \in {} |-> 0]

----------------------------------------------------------------------------
(* enum Dictionary *)

SimpleDictionary(dict) == [kind |-> "SimpleDictionary", dict |-> dict]

DefaultDictionary(dict, default_value) ==
    [kind |-> "DefaultDictionary", dict |-> dict,
     default_value |-> default_value]

\* Dictionary::get of a Default dictionary that answers with the default
Mutant_Dictionary_get_default_always(self, key) ==
    IF self.kind = "SimpleDictionary"
    THEN [self |-> self, ret |-> HashMap_get(self.dict, key)]
    ELSE [self |-> DefaultDictionary(
                      or_insert_with(self.dict, key, self.default_value),
                      self.default_value),
          ret |-> Some(self.default_value)]

\* Dictionary::get that returns the default without inserting it
Mutant_Dictionary_get_pure(self, key) ==
    IF self.kind = "SimpleDictionary"
    THEN [self |-> self, ret |-> HashMap_get(self.dict, key)]
    ELSE [self |-> self,
          ret |-> IF key \in DOMAIN self.dict THEN Some(self.dict[key])
                  ELSE Some(self.default_value)]

\* Dictionary::get(&mut self, key): the dictionary after the call and the
\* returned Option
Dictionary_get(self, key) ==
    IF self.kind = "SimpleDictionary"
    THEN [self |-> self, ret |-> HashMap_get(self.dict, key)]
    ELSE LET dict == or_insert_with(self.dict, key, self.default_value)
         IN  [self |-> DefaultDictionary(dict, self.default_value),
              ret |-> Some(dict[key])]

\* Dictionary::insert that keeps an existing binding (entry().or_insert())
Mutant_Dictionary_insert_keeps(self, key, value) ==
    [self EXCEPT !.dict = or_insert_with(self.dict, key, value)]

\* Dictionary::insert(&mut self, key, value): the dictionary after the call
Dictionary_insert(self, key, value) ==
    [self EXCEPT !.dict = HashMap_insert(self.dict, key, value)]

----------------------------------------------------------------------------
(* struct DictTracker *)

DictTracker(data, current_ptr) == [data |-> data, current_ptr |-> current_ptr]

new_empty(base) == DictTracker(SimpleDictionary(HashMap_new), base)

\* new_default_dict that drops the initial dictionary
Mutant_DictTracker_new_default_dict_empty(base, default_value, initial_dict) ==
    DictTracker(DefaultDictionary(HashMap_new, default_value), base)

DictTracker_new_default_dict(base, default_value, initial_dict) ==
    DictTracker(
        DefaultDictionary(
            IF initial_dict.tag = "Some" THEN initial_dict.val ELSE HashMap_new,
            default_value),
        base)

\* new_with_initial that drops the initial dictionary
Mutant_new_with_initial_empty(base, initial_dict) ==
    DictTracker(SimpleDictionary(HashMap_new), base)

new_with_initial(base, initial_dict) ==
    DictTracker(SimpleDictionary(initial_dict), base)

\* DictTracker::get_dictionary_copy
DictTracker_get_dictionary_copy(self) == self.data.dict

\* get_value that records a miss in a Simple dictionary as a binding to itself
Mutant_DictTracker_get_value_records(self, key) ==
    LET r == Dictionary_get(self.data, key)
    IN  IF r.ret.tag = "Some"
        THEN [self |-> [self EXCEPT !.data = r.self], ret |-> Ok(r.ret.val)]
        ELSE [self |-> [self EXCEPT !.data.dict =
                           HashMap_insert(self.data.dict, key, key)],
              ret |-> Err("NoValueForKey", key)]

\* DictTracker::get_value: the tracker after the call and the Result
DictTracker_get_value(self, key) ==
    LET r == Dictionary_get(self.data, key)
    IN  [self |-> [self EXCEPT !.data = r.self],
         ret |-> IF r.ret.tag = "Some" THEN Ok(r.ret.val)
                 ELSE Err("NoValueForKey", key)]

\* insert_value that also moves current_ptr on, as a dict-write hint does
Mutant_DictTracker_insert_value_advances(self, key, val) ==
    [self EXCEPT !.data = Dictionary_insert(self.data, key, val),
                 !.current_ptr.offset = @ + 1]

\* DictTracker::insert_value: the tracker after the call
DictTracker_insert_value(self, key, val) ==
    [self EXCEPT !.data = Dictionary_insert(self.data, key, val)]

----------------------------------------------------------------------------
(* impl DictManager *)

\* DictManager::new
DictManager_new == [k \in {} |-> 0]

\* new_dict that stores the tracker under the index after the base's
Mutant_new_dict_next_key(self, base, initial_dict) ==
    IF contains_key(self, base.segment_index)
    THEN [self |-> self,
          ret |-> Err("CantCreateDictionaryOnTakenSegment", base.segment_index)]
    ELSE IF base.segment_index < 0
    THEN [self |-> self,
          ret |-> Err("AddressInTemporarySegment", base.segment_index)]
    ELSE [self |-> HashMap_insert(self, base.segment_index + 1,
                                  new_with_initial(base, initial_dict)),
          ret |-> Ok(base)]

\* new_dict whose tracker points at the start of segment 0
Mutant_new_dict_ptr_zero(self, base, initial_dict) ==
    IF contains_key(self, base.segment_index)
    THEN [self |-> self,
          ret |-> Err("CantCreateDictionaryOnTakenSegment", base.segment_index)]
    ELSE IF base.segment_index < 0
    THEN [self |-> self,
          ret |-> Err("AddressInTemporarySegment", base.segment_index)]
    ELSE [self |-> HashMap_insert(self, base.segment_index,
                      new_with_initial(Relocatable(0, 0), initial_dict)),
          ret |-> Ok(base)]

\* new_dict that inserts the tracker before it tests for a temporary segment
Mutant_new_dict_insert_first(self, base, initial_dict) ==
    IF contains_key(self, base.segment_index)
    THEN [self |-> self,
          ret |-> Err("CantCreateDictionaryOnTakenSegment", base.segment_index)]
    ELSE IF base.segment_index < 0
    THEN [self |-> HashMap_insert(self, base.segment_index,
                                  new_with_initial(base, initial_dict)),
          ret |-> Err("AddressInTemporarySegment", base.segment_index)]
    ELSE [self |-> HashMap_insert(self, base.segment_index,
                                  new_with_initial(base, initial_dict)),
          ret |-> Ok(base)]

\* new_dict without the taken-segment guard
Mutant_new_dict_unguarded(self, base, initial_dict) ==
    IF base.segment_index < 0
    THEN [self |-> self,
          ret |-> Err("AddressInTemporarySegment", base.segment_index)]
    ELSE [self |-> HashMap_insert(self, base.segment_index,
                                  new_with_initial(base, initial_dict)),
          ret |-> Ok(base)]

\* DictManager::new_dict after `base = vm.add_memory_segment()`:
\* the trackers after the call and the Result
DictManager_new_dict(self, base, initial_dict) ==
    IF contains_key(self, base.segment_index)
    THEN [self |-> self,
          ret |-> Err("CantCreateDictionaryOnTakenSegment", base.segment_index)]
    ELSE IF base.segment_index < 0
    THEN [self |-> self,
          ret |-> Err("AddressInTemporarySegment", base.segment_index)]
    ELSE [self |-> HashMap_insert(self, base.segment_index,
                                  new_with_initial(base, initial_dict)),
          ret |-> Ok(base)]

\* new_default_dict that starts the trackers map over with the new tracker
Mutant_new_default_dict_resets(self, base, default_value, initial_dict) ==
    IF contains_key(self, base.segment_index)
    THEN [self |-> self,
          ret |-> Err("CantCreateDictionaryOnTakenSegment", base.segment_index)]
    ELSE [self |-> HashMap_insert(DictManager_new, base.segment_index,
             DictTracker_new_default_dict(base, default_value, initial_dict)),
          ret |-> Ok(base)]

\* new_default_dict without the taken-segment guard
Mutant_new_default_dict_unguarded(self, base, default_value, initial_dict) ==
    [self |-> HashMap_insert(self, base.segment_index,
             DictTracker_new_default_dict(base, default_value, initial_dict)),
     ret |-> Ok(base)]

\* DictManager::new_default_dict after `base = vm.add_memory_segment()`
DictManager_new_default_dict(self, base, default_value, initial_dict) ==
    IF contains_key(self, base.segment_index)
    THEN [self |-> self,
          ret |-> Err("CantCreateDictionaryOnTakenSegment", base.segment_index)]
    ELSE [self |-> HashMap_insert(self, base.segment_index,
             DictTracker_new_default_dict(base, default_value, initial_dict)),
          ret |-> Ok(base)]

\* get_tracker_mut reporting the two pointers of a mismatch in the other order
Mutant_get_tracker_mut_swapped(self, dict_ptr) ==
    IF ~contains_key(self, dict_ptr.segment_index)
    THEN Err("NoDictTracker", dict_ptr.segment_index)
    ELSE LET tracker == self[dict_ptr.segment_index]
         IN  IF tracker.current_ptr # dict_ptr
             THEN Err("MismatchedDictPtr", <<dict_ptr, tracker.current_ptr>>)
             ELSE Ok(tracker)

\* DictManager::get_tracker_mut: the Result (a reference to the tracker)
DictManager_get_tracker_mut(self, dict_ptr) ==
    IF ~contains_key(self, dict_ptr.segment_index)
    THEN Err("NoDictTracker", dict_ptr.segment_index)
    ELSE LET tracker == self[dict_ptr.segment_index]
         IN  IF tracker.current_ptr # dict_ptr
             THEN Err("MismatchedDictPtr", <<tracker.current_ptr, dict_ptr>>)
             ELSE Ok(tracker)

\* get_tracker that compares the segment of the pointer only
Mutant_get_tracker_segment_only(self, dict_ptr) ==
    IF ~contains_key(self, dict_ptr.segment_index)
    THEN Err("NoDictTracker", dict_ptr.segment_index)
    ELSE LET tracker == self[dict_ptr.segment_index]
         IN  IF tracker.current_ptr.segment_index # dict_ptr.segment_index
             THEN Err("MismatchedDictPtr", <<tracker.current_ptr, dict_ptr>>)
             ELSE Ok(tracker)

\* DictManager::get_tracker
DictManager_get_tracker(self, dict_ptr) ==
    IF ~contains_key(self, dict_ptr.segment_index)
    THEN Err("NoDictTracker", dict_ptr.segment_index)
    ELSE LET tracker == self[dict_ptr.segment_index]
         IN  IF tracker.current_ptr # dict_ptr
             THEN Err("MismatchedDictPtr", <<tracker.current_ptr, dict_ptr>>)
             ELSE Ok(tracker)

----------------------------------------------------------------------------
(* The memory-segment allocator (external collaborator) *)

\* vm.add_memory_segment(): the base addresses the allocator can return when
\* n segments exist. A fresh allocator returns (n, 0); the other one stands
\* for an allocator that is misused or corrupted: it may also return a
\* temporary segment or an index it has handed out before.
add_memory_segment(kind, n) ==
    IF kind = "fresh" THEN {Relocatable(n, 0)}
    ELSE {Relocatable(s, 0) : s \in (0 - 1)..n}

----------------------------------------------------------------------------
(* felt/src/lib.rs: the field prime *)

\* Unsigned integers of any size are the sets of the exponents of their
\* binary digits: 5 is {0, 2}.
Shl(x, n) == {i + n : i \in x}

RECURSIVE BigAdd(_, _)
BigAdd(x, y) ==
    IF x \cap y = {} THEN x \cup y
    ELSE BigAdd((x \cup y) \ (x \cap y), Shl(x \cap y, 1))

\* A small natural number as an unsigned integer
RECURSIVE BigOfNat(_)
BigOfNat(n) ==
    IF n = 0 THEN {}
    ELSE (IF n % 2 = 1 THEN {0} ELSE {}) \cup Shl(BigOfNat(n \div 2), 1)

U128_BITS == 128

\* Arithmetic of u128: the low 128 binary digits
WrapU128(x) == {i \in x : i < U128_BITS}

\* pub const PRIME_STR
PRIME_STR ==
    <<"0", "x", "8", "0", "0", "0", "0", "0", "0", "0", "0", "0", "0",
      "0", "0", "1", "1", "0", "0", "0", "0", "0", "0", "0", "0", "0",
      "0", "0", "0", "0", "0", "0", "0", "0", "0", "0", "0", "0", "0",
      "0", "0", "0", "0", "0", "0", "0", "0", "0", "0", "0", "0", "0",
      "0", "0", "0", "0", "0", "0", "0", "0", "0", "0", "0", "0", "1">>

\* (1 << 123) + (17 << 63)
Mutant_FIELD_shift ==
    <<WrapU128(BigAdd(WrapU128(Shl(BigOfNat(1), 123)),
                      WrapU128(Shl(BigOfNat(17), 63)))),
      BigOfNat(1)>>

\* pub const FIELD: (u128, u128) = ((1 << 123) + (17 << 64), 1)
FIELD ==
    <<WrapU128(BigAdd(WrapU128(Shl(BigOfNat(1), 123)),
                      WrapU128(Shl(BigOfNat(17), 64)))),
      BigOfNat(1)>>

\* The integer the pair FIELD = (high, low) stands for: high * 2^128 + low
FieldValue == BigAdd(Shl(FIELD[1], U128_BITS), FIELD[2])

\* P = 2^251 + 17 * 2^192 + 1
P ==
    LET seventeen_times(x) == BigAdd(Shl(x, 4), x)
    IN  BigAdd(BigAdd(Shl(BigOfNat(1), 251),
                      seventeen_times(Shl(BigOfNat(1), 192))),
               BigOfNat(1))

\* The hexadecimal digits and their values
HexDigits ==
    <<"0", "1", "2", "3", "4", "5", "6", "7",
      "8", "9", "a", "b", "c", "d", "e", "f">>

IsHexDigit(c) == \E v \in 1..16 : HexDigits[v] = c

HexValue(c) == (CHOOSE v \in 1..16 : HexDigits[v] = c) - 1

\* The k-th hexadecimal digit of x, counted from the least significant one
HexDigitOf(x, k) ==
    LET bit(j) == IF (4 * k + j) \in x THEN 1 ELSE 0
    IN  HexDigits[bit(0) + 2 * bit(1) + 4 * bit(2) + 8 * bit(3) + 1]

\* The number of hexadecimal digits of x (x > 0)
HexLen(x) == ((CHOOSE i \in x : \A j \in x : j <= i) \div 4) + 1

PrimeStart == [pos |-> 0, acc |-> {}, out |-> <<>>]

\* Reading PRIME_STR: the "0x" prefix
read_prefix ==
    /\ prime.pos = 0
    /\ PRIME_STR[1] = "0" /\ PRIME_STR[2] = "x"
    /\ prime' = [prime EXCEPT !.pos = 2]
    /\ UNCHANGED <<trackers, num_segments, allocator, materialized, last,
                   calls, build>>

\* Reading PRIME_STR: the next digit, most significant first
read_digit ==
    /\ prime.pos >= 2
    /\ prime.pos < Len(PRIME_STR)
    /\ IsHexDigit(PRIME_STR[prime.pos + 1])
    /\ prime' = [prime EXCEPT
                   !.pos = @ + 1,
                   !.acc = BigAdd(Shl(@, 4),
                                  BigOfNat(HexValue(PRIME_STR[prime.pos + 1])))]
    /\ UNCHANGED <<trackers, num_segments, allocator, materialized, last,
                   calls, build>>

\* Writing the value of FIELD as a hexadecimal numeral: the next digit, least
\* significant first
write_digit ==
    /\ prime.pos = Len(PRIME_STR)
    /\ Len(prime.out) < HexLen(FieldValue)
    /\ prime' = [prime EXCEPT
                   !.out = <<HexDigitOf(FieldValue, Len(prime.out))>> \o @]
    /\ UNCHANGED <<trackers, num_segments, allocator, materialized, last,
                   calls, build>>

NextPrime ==
    \/ read_prefix
    \/ read_digit
    \/ write_digit

----------------------------------------------------------------------------
(* felt/src/lib.rs: the conformance check of the backend *)

\* trait FeltOps
FeltOps ==
    {"modpow", "mod_floor", "div_floor", "div_mod_floor", "iter_u64_digits",
     "to_signed_bytes_le", "to_bytes_be", "parse_bytes", "from_bytes_be",
     "to_str_radix", "div_rem", "to_bigint", "to_bigint_unsigned",
     "mul_inverse", "sqrt"}

\* The assertion functions assert_felt_impl! declares, with their bounds
Declared ==
    <<[fn |-> "assert_new_felt", bound |-> "NewFelt"],
      [fn |-> "assert_felt_ops", bound |-> "FeltOps"],
      [fn |-> "assert_add", bound |-> "Add"],
      [fn |-> "assert_add_ref", bound |-> "Add<&'a $type>"],
      [fn |-> "assert_add_u32", bound |-> "Add<u32>"],
      [fn |-> "assert_add_usize", bound |-> "Add<usize>"],
      [fn |-> "assert_add_ref_usize", bound |-> "Add<usize>"],
      [fn |-> "assert_add_assign", bound |-> "AddAssign<&'a $type>"],
      [fn |-> "assert_neg", bound |-> "Neg"],
      [fn |-> "assert_sub", bound |-> "Sub<$type, Output = $type>"],
      [fn |-> "assert_sub_ref", bound |-> "Sub<&'a $type, Output = $type>"],
      [fn |-> "assert_sub_assign", bound |-> "SubAssign<&'a $type>"],
      [fn |-> "assert_mul", bound |-> "Mul<$type, Output = $type>"],
      [fn |-> "assert_mul_ref", bound |-> "Mul<&'a $type, Output = $type>"],
      [fn |-> "assert_mul_assign", bound |-> "MulAssign<&'a $type>"],
      [fn |-> "assert_div", bound |-> "Div"],
      [fn |-> "assert_div_ref", bound |-> "Div"],
      [fn |-> "assert_shl_u32", bound |-> "Shl<u32>"],
      [fn |-> "assert_shl_usize", bound |-> "Shl<usize>"],
      [fn |-> "assert_shl_ref_usize", bound |-> "Shl<usize>"],
      [fn |-> "assert_shr_u32", bound |-> "Shr<u32>"],
      [fn |-> "assert_bitand", bound |-> "BitAnd<&'a $type, Output = $type>"],
      [fn |-> "assert_bitand_ref", bound |-> "BitAnd"],
      [fn |-> "assert_bitor", bound |-> "BitOr"],
      [fn |-> "assert_bitxor", bound |-> "BitXor"],
      [fn |-> "assert_sum", bound |-> "Sum<$type>"],
      [fn |-> "assert_pow", bound |-> "Pow<u32>"],
      [fn |-> "assert_pow_ref", bound |-> "Pow<u32>"],
      [fn |-> "assert_num", bound |-> "Num"],
      [fn |-> "assert_zero", bound |-> "Zero"],
      [fn |-> "assert_one", bound |-> "One"],
      [fn |-> "assert_bounded", bound |-> "Bounded"],
      [fn |-> "assert_signed", bound |-> "Signed"],
      [fn |-> "assert_from_primitive", bound |-> "FromPrimitive"],
      [fn |-> "assert_to_primitive", bound |-> "ToPrimitive"],
      [fn |-> "assert_display", bound |-> "Display"],
      [fn |-> "assert_debug", bound |-> "Debug"]>>

\* The body of assert_all, line by line: the type each assertion is
\* instantiated with; active is FALSE for the line that is commented out
assert_all_lines ==
    <<[fn |-> "assert_new_felt", on |-> "$type", active |-> TRUE],
      [fn |-> "assert_felt_ops", on |-> "$type", active |-> FALSE],
      [fn |-> "assert_add", on |-> "$type", active |-> TRUE],
      [fn |-> "assert_add_ref", on |-> "$type", active |-> TRUE],
      [fn |-> "assert_add_u32", on |-> "$type", active |-> TRUE],
      [fn |-> "assert_add_usize", on |-> "$type", active |-> TRUE],
      [fn |-> "assert_add_ref_usize", on |-> "&$type", active |-> TRUE],
      [fn |-> "assert_add_assign", on |-> "$type", active |-> TRUE],
      [fn |-> "assert_sub", on |-> "$type", active |-> TRUE],
      [fn |-> "assert_sub_ref", on |-> "$type", active |-> TRUE],
      [fn |-> "assert_sub_assign", on |-> "$type", active |-> TRUE],
      [fn |-> "assert_mul", on |-> "$type", active |-> TRUE],
      [fn |-> "assert_mul_ref", on |-> "$type", active |-> TRUE],
      [fn |-> "assert_mul_assign", on |-> "$type", active |-> TRUE],
      [fn |-> "assert_div", on |-> "$type", active |-> TRUE],
      [fn |-> "assert_div_ref", on |-> "&$type", active |-> TRUE],
      [fn |-> "assert_neg", on |-> "$type", active |-> TRUE],
      [fn |-> "assert_bitand", on |-> "$type", active |-> TRUE],
      [fn |-> "assert_bitand_ref", on |-> "&$type", active |-> TRUE],
      [fn |-> "assert_bitor", on |-> "&$type", active |-> TRUE],
      [fn |-> "assert_bitxor", on |-> "&$type", active |-> TRUE],
      [fn |-> "assert_sum", on |-> "$type", active |-> TRUE],
      [fn |-> "assert_pow", on |-> "$type", active |-> TRUE],
      [fn |-> "assert_pow_ref", on |-> "&$type", active |-> TRUE],
      [fn |-> "assert_num", on |-> "$type", active |-> TRUE],
      [fn |-> "assert_zero", on |-> "$type", active |-> TRUE],
      [fn |-> "assert_one", on |-> "$type", active |-> TRUE],
      [fn |-> "assert_bounded", on |-> "$type", active |-> TRUE],
      [fn |-> "assert_signed", on |-> "$type", active |-> TRUE],
      [fn |-> "assert_from_primitive", on |-> "$type", active |-> TRUE],
      [fn |-> "assert_to_primitive", on |-> "$type", active |-> TRUE],
      [fn |-> "assert_shl_u32", on |-> "$type", active |-> TRUE],
      [fn |-> "assert_shl_usize", on |-> "$type", active |-> TRUE],
      [fn |-> "assert_shl_ref_usize", on |-> "&$type", active |-> TRUE],
      [fn |-> "assert_shr_u32", on |-> "$type", active |-> TRUE],
      [fn |-> "assert_display", on |-> "$type", active |-> TRUE],
      [fn |-> "assert_debug", on |-> "$type", active |-> TRUE]>>

IsActive(line) == line.active

\* The calls assert_all makes
assert_all == SelectSeq(assert_all_lines, IsActive)

BoundOf(fn) ==
    Declared[CHOOSE i \in 1..Len(Declared) : Declared[i].fn = fn].bound

\* The Felt backends: a backend implements traits for $type or &$type and
\* defines methods of FeltOps. The backends taken are the complete one and
\* those that lack one trait implementation or one FeltOps method.
AllImpls ==
    {<<BoundOf(assert_all_lines[i].fn), assert_all_lines[i].on>> :
        i \in {j \in 1..Len(assert_all_lines) :
                  BoundOf(assert_all_lines[j].fn) # "FeltOps"}}

Backend(impls, methods) == [impls |-> impls, methods |-> methods]

Backends ==
    {Backend(AllImpls, FeltOps)}
       \cup {Backend(AllImpls \ {i}, FeltOps) : i \in AllImpls}
       \cup {Backend(AllImpls, FeltOps \ {m}) : m \in FeltOps}

\* The bound `T: bound` holds of the backend's type `on`. A type implements
\* the trait FeltOps only when it defines every method of the trait.
Satisfies(backend, bound, on) ==
    IF bound = "FeltOps" THEN on = "$type" /\ backend.methods = FeltOps
    ELSE <<bound, on>> \in backend.impls

BuildStart == [status |-> "none", backend |-> Backend({}, {}), next |-> 1]

\* #[cfg(feature = ...)] pub type Felt = ...: the build picks the backend
select_backend ==
    /\ build.status = "none"
    /\ \E backend \in Backends :
          build' = [status |-> "checking", backend |-> backend, next |-> 1]
    /\ UNCHANGED <<trackers, num_segments, allocator, materialized, last,
                   calls, prime>>

\* The compiler checks the next call of assert_all in assert_felt_impl!(Felt)
check_assertion ==
    /\ build.status = "checking"
    /\ build.next <= Len(assert_all)
    /\ LET line == assert_all[build.next]
       IN  IF Satisfies(build.backend, BoundOf(line.fn), line.on)
           THEN build' = [build EXCEPT !.next = @ + 1]
           ELSE build' = [build EXCEPT !.status = "error"]
    /\ UNCHANGED <<trackers, num_segments, allocator, materialized, last,
                   calls, prime>>

\* Every call of assert_all type-checked: the crate builds
finish_build ==
    /\ build.status = "checking"
    /\ build.next > Len(assert_all)
    /\ build' = [build EXCEPT !.status = "built"]
    /\ UNCHANGED <<trackers, num_segments, allocator, materialized, last,
                   calls, prime>>

NextBuild ==
    \/ select_backend
    \/ check_assertion
    \/ finish_build

----------------------------------------------------------------------------
(* The state machine *)

Call(op, arg, result) == [op |-> op, arg |-> arg, result |-> result]

Init ==
    /\ trackers = DictManager_new
    /\ num_segments = 0
    /\ allocator \in {"fresh", "any"}
    /\ materialized = {}
    /\ last = Call("new", <<>>, Ok(<<>>))
    /\ calls = 0
    /\ prime = PrimeStart
    /\ build = BuildStart

\* dict_manager.new_dict(&mut vm, initial_dict)
new_dict ==
    /\ last.op = "none"
    /\ UNCHANGED <<prime, build>>
    /\ calls < MaxCalls
    /\ calls' = calls + 1
    /\ num_segments < MaxSegments
    /\ \E base \in add_memory_segment(allocator, num_segments),
          initial_dict \in InitialDicts :
          LET r == DictManager_new_dict(trackers, base, initial_dict)
          IN  /\ trackers' = r.self
              /\ num_segments' = num_segments + 1
              /\ last' = Call("new_dict",
                              [base |-> base, initial_dict |-> initial_dict],
                              r.ret)
    /\ UNCHANGED <<allocator, materialized>>

\* dict_manager.new_default_dict(&mut vm, &default_value, initial_dict)
new_default_dict ==
    /\ last.op = "none"
    /\ UNCHANGED <<prime, build>>
    /\ calls < MaxCalls
    /\ calls' = calls + 1
    /\ num_segments < MaxSegments
    /\ \E base \in add_memory_segment(allocator, num_segments),
          default_value \in Felts,
          initial_dict \in {None} \cup {Some(m) : m \in InitialDicts} :
          LET r == DictManager_new_default_dict(trackers, base, default_value,
                                                initial_dict)
          IN  /\ trackers' = r.self
              /\ num_segments' = num_segments + 1
              /\ last' = Call("new_default_dict",
                              [base |-> base, default_value |-> default_value,
                               initial_dict |-> initial_dict],
                              r.ret)
    /\ UNCHANGED <<allocator, materialized>>

\* dict_manager.get_tracker(&dict_ptr)
get_tracker ==
    /\ last.op = "none"
    /\ UNCHANGED <<prime, build>>
    /\ calls < MaxCalls
    /\ calls' = calls + 1
    /\ \E dict_ptr \in Pointers :
          last' = Call("get_tracker", [dict_ptr |-> dict_ptr],
                       DictManager_get_tracker(trackers, dict_ptr))
    /\ UNCHANGED <<trackers, num_segments, allocator, materialized>>

\* dict_manager.get_tracker_mut(&dict_ptr)
get_tracker_mut ==
    /\ last.op = "none"
    /\ UNCHANGED <<prime, build>>
    /\ calls < MaxCalls
    /\ calls' = calls + 1
    /\ \E dict_ptr \in Pointers :
          last' = Call("get_tracker_mut", [dict_ptr |-> dict_ptr],
                       DictManager_get_tracker_mut(trackers, dict_ptr))
    /\ UNCHANGED <<trackers, num_segments, allocator, materialized>>

\* tracker.get_value(&key) on the tracker of segment seg
get_value ==
    /\ last.op = "none"
    /\ UNCHANGED <<prime, build>>
    /\ calls < MaxCalls
    /\ calls' = calls + 1
    /\ \E seg \in DOMAIN trackers, key \in Felts :
          LET r == DictTracker_get_value(trackers[seg], key)
          IN  /\ trackers' = [trackers EXCEPT ![seg] = r.self]
              /\ materialized' =
                    IF /\ trackers[seg].data.kind = "DefaultDictionary"
                       /\ key \notin DOMAIN trackers[seg].data.dict
                    THEN materialized \cup {<<seg, key>>}
                    ELSE materialized
              /\ last' = Call("get_value", [seg |-> seg, key |-> key], r.ret)
    /\ UNCHANGED <<num_segments, allocator>>

\* tracker.insert_value(&key, &val) on the tracker of segment seg
insert_value ==
    /\ last.op = "none"
    /\ UNCHANGED <<prime, build>>
    /\ calls < MaxCalls
    /\ calls' = calls + 1
    /\ \E seg \in DOMAIN trackers, key \in Felts, val \in Felts :
          /\ trackers' = [trackers EXCEPT
                            ![seg] = DictTracker_insert_value(@, key, val)]
          /\ materialized' = materialized \ {<<seg, key>>}
          /\ last' = Call("insert_value",
                          [seg |-> seg, key |-> key, val |-> val,
                           materialized |-> <<seg, key>> \in materialized],
                          Ok(<<>>))
    /\ UNCHANGED <<num_segments, allocator>>

\* tracker.get_dictionary_copy() on the tracker of segment seg
get_dictionary_copy ==
    /\ last.op = "none"
    /\ UNCHANGED <<prime, build>>
    /\ calls < MaxCalls
    /\ calls' = calls + 1
    /\ \E seg \in DOMAIN trackers :
          last' = Call("get_dictionary_copy", [seg |-> seg],
                       Ok(DictTracker_get_dictionary_copy(trackers[seg])))
    /\ UNCHANGED <<trackers, num_segments, allocator, materialized>>

\* Another caller of the VM allocates a segment: vm.add_memory_segment()
other_add_memory_segment ==
    /\ last.op = "none"
    /\ UNCHANGED <<prime, build>>
    /\ calls < MaxCalls
    /\ calls' = calls + 1
    /\ num_segments < MaxSegments
    /\ num_segments' = num_segments + 1
    /\ last' = Call("add_memory_segment", <<>>, Ok(<<>>))
    /\ UNCHANGED <<trackers, allocator, materialized>>

\* Logic outside the manager (a dict-update hint) advances the current_ptr
\* of the tracker of segment seg within its segment.
advance_current_ptr ==
    /\ last.op = "none"
    /\ UNCHANGED <<prime, build>>
    /\ calls < MaxCalls
    /\ calls' = calls + 1
    /\ \E seg \in DOMAIN trackers :
          /\ trackers[seg].current_ptr.offset < MaxOffset
          /\ trackers' = [trackers EXCEPT ![seg].current_ptr.offset = @ + 1]
          /\ last' = Call("advance_current_ptr", [seg |-> seg], Ok(<<>>))
    /\ UNCHANGED <<num_segments, allocator, materialized>>

\* The call returns: the caller has taken the result. Execution is
\* synchronous, so the next call starts only after this.
return_to_caller ==
    /\ last.op # "none"
    /\ UNCHANGED <<prime, build>>
    /\ last' = Call("none", <<>>, Ok(<<>>))
    /\ UNCHANGED <<trackers, num_segments, allocator, materialized, calls>>

Next ==
    \/ return_to_caller
    \/ new_dict
    \/ new_default_dict
    \/ get_tracker
    \/ get_tracker_mut
    \/ get_value
    \/ insert_value
    \/ get_dictionary_copy
    \/ other_add_memory_segment
    \/ advance_current_ptr

Spec == Init /\ [][Next]_vars

\* The reading of the prime constants
SpecPrime == Init /\ [][NextPrime]_vars

\* The build of the felt crate with one backend
SpecBuild == Init /\ [][NextBuild]_vars

TypeOK ==
    /\ DOMAIN trackers \subseteq SegmentIndices
    /\ num_segments \in 0..MaxSegments
    /\ allocator \in {"fresh", "any"}
    /\ calls \in 0..MaxCalls

----------------------------------------------------------------------------
(* Properties *)

IsCreation(call) == call.op \in {"new_dict", "new_default_dict"}

\* C1: a new_dict or new_default_dict call for which the allocator returns a
\* segment index that already has a tracker (Simple or Default) fails with
\* CantCreateDictionaryOnTakenSegment(index).
C1_TakenSegmentFails ==
    [][(/\ IsCreation(last')
        /\ last'.arg.base.segment_index \in DOMAIN trackers)
       => /\ last'.result.tag = "CantCreateDictionaryOnTakenSegment"
          /\ last'.result.val = last'.arg.base.segment_index]_vars

\* C1 witness: new_dict was refused on a segment owned by a Default tracker.
C1_Witness ==
    /\ last.op = "new_dict"
    /\ last.result.tag = "CantCreateDictionaryOnTakenSegment"
    /\ last.result.val >= 0
    /\ last.result.val \in DOMAIN trackers
    /\ trackers[last.result.val].data.kind = "DefaultDictionary"

\* C2: get_tracker(ptr) and get_tracker_mut(ptr) return
\* NoDictTracker(ptr.segment_index) when the segment has no tracker (this
\* check comes first), otherwise MismatchedDictPtr(current_ptr, ptr) when the
\* tracker's current_ptr differs from ptr, otherwise the segment's tracker.
C2_PointerValidation ==
    last.op \in {"get_tracker", "get_tracker_mut"} =>
        LET ptr == last.arg.dict_ptr
            res == last.result
        IN  IF ptr.segment_index \notin DOMAIN trackers
            THEN res.tag = "NoDictTracker" /\ res.val = ptr.segment_index
            ELSE IF trackers[ptr.segment_index].current_ptr # ptr
            THEN /\ res.tag = "MismatchedDictPtr"
                 /\ res.val[1] = trackers[ptr.segment_index].current_ptr
                 /\ res.val[2] = ptr
            ELSE res.tag = "Ok" /\ res.val = trackers[ptr.segment_index]

\* C2 witness: get_tracker_mut was given the base of a dictionary whose
\* current_ptr has moved on.
C2_Witness ==
    /\ last.op = "get_tracker_mut"
    /\ last.result.tag = "MismatchedDictPtr"
    /\ last.result.val[1].offset = 1
    /\ last.result.val[2].offset = 0
    /\ last.result.val[1].segment_index = last.result.val[2].segment_index

\* C3: no tracker is ever stored under a negative segment index, and every
\* creation call that received a negative index ended in an error.
C3_NoTrackerOnTemporarySegment ==
    /\ \A s \in DOMAIN trackers : s >= 0
    /\ (IsCreation(last) /\ last.arg.base.segment_index < 0)
          => last.result.tag # "Ok"

\* C4: new_dict fails with AddressInTemporarySegment(index) whenever the
\* allocator returns a negative segment index, and stores no tracker then.
C4_NewDictTemporarySegment ==
    [][(last'.op = "new_dict" /\ last'.arg.base.segment_index < 0)
       => /\ last'.result.tag = "AddressInTemporarySegment"
          /\ last'.result.val = last'.arg.base.segment_index
          /\ trackers' = trackers]_vars

\* C5: on a Default tracker with default value d, get_value(k) for a key k
\* absent from the map returns d and leaves the map extended with (k, d);
\* the pair (k, d) stays in the map, and in every get_dictionary_copy(),
\* until insert_value overwrites k.
C5_DefaultMissMaterializes ==
    [][/\ (/\ last'.op = "get_value"
           /\ trackers[last'.arg.seg].data.kind = "DefaultDictionary"
           /\ last'.arg.key \notin DOMAIN trackers[last'.arg.seg].data.dict)
          => LET seg == last'.arg.seg
                 key == last'.arg.key
                 d == trackers[seg].data.default_value
                 before == trackers[seg].data.dict
                 after == trackers'[seg].data.dict
             IN  /\ last'.result.tag = "Ok"
                 /\ last'.result.val = d
                 /\ DOMAIN after = DOMAIN before \cup {key}
                 /\ after[key] = d
                 /\ \A k \in DOMAIN before : after[k] = before[k]
       /\ \A m \in materialized' :
             /\ m[2] \in DOMAIN trackers'[m[1]].data.dict
             /\ trackers'[m[1]].data.dict[m[2]]
                   = trackers'[m[1]].data.default_value
             /\ (last'.op = "get_dictionary_copy" /\ last'.arg.seg = m[1])
                   => /\ m[2] \in DOMAIN last'.result.val
                      /\ last'.result.val[m[2]]
                            = trackers'[m[1]].data.default_value]_vars

\* C5 witness: a copy taken after a miss shows the key with the default.
C5_Witness ==
    /\ last.op = "get_dictionary_copy"
    /\ \E k \in Felts :
          /\ <<last.arg.seg, k>> \in materialized
          /\ k \in DOMAIN last.result.val
          /\ last.result.val[k] = trackers[last.arg.seg].data.default_value

\* C6: on a Simple tracker, get_value(k) for a key k absent from the map
\* fails with NoValueForKey(k) and leaves the map unchanged.
C6_SimpleMissFails ==
    [][(/\ last'.op = "get_value"
        /\ trackers[last'.arg.seg].data.kind = "SimpleDictionary"
        /\ last'.arg.key \notin DOMAIN trackers[last'.arg.seg].data.dict)
       => /\ last'.result.tag = "NoValueForKey"
          /\ last'.result.val = last'.arg.key
          /\ DictTracker_get_dictionary_copy(trackers'[last'.arg.seg])
                = DictTracker_get_dictionary_copy(trackers[last'.arg.seg])
          /\ trackers' = trackers]_vars

\* C6 witness: a miss on a Simple dictionary that holds another key.
C6_Witness ==
    /\ last.op = "get_value"
    /\ last.result.tag = "NoValueForKey"
    /\ trackers[last.arg.seg].data.kind = "SimpleDictionary"
    /\ trackers[last.arg.seg].data.dict # HashMap_new
    /\ last.arg.key \notin DOMAIN trackers[last.arg.seg].data.dict

\* C7: insert_value(k, v) never fails, in Simple and in Default mode; after it
\* the map binds k to v, whether or not k was bound before (also when k was
\* materialized with the default), and all other bindings are unchanged.
C7_InsertIsUpsert ==
    [][last'.op = "insert_value"
       => LET seg == last'.arg.seg
              key == last'.arg.key
              before == trackers[seg].data.dict
              after == trackers'[seg].data.dict
          IN  /\ last'.result.tag = "Ok"
              /\ DOMAIN after = DOMAIN before \cup {key}
              /\ after[key] = last'.arg.val
              /\ \A k \in DOMAIN before \ {key} : after[k] = before[k]]_vars

\* C7 witness: insert_value replaced a materialized default by another value.
C7_Witness ==
    /\ last.op = "insert_value"
    /\ last.arg.materialized
    /\ trackers[last.arg.seg].data.kind = "DefaultDictionary"
    /\ last.arg.val # trackers[last.arg.seg].data.default_value
    /\ trackers[last.arg.seg].data.dict[last.arg.key] = last.arg.val

C9_NewDefaultDictStoresDefaultTracker ==
    [][(last'.op = "new_default_dict" /\ last'.result.tag = "Ok")
       => LET base == last'.arg.base
              initial == last'.arg.initial_dict
              t == trackers'[base.segment_index]
          IN  /\ last'.result.val = base
              /\ base.segment_index \in DOMAIN trackers'
              /\ t.data.kind = "DefaultDictionary"
              /\ t.data.default_value = last'.arg.default_value
              /\ initial.tag = "Some" => t.data.dict = initial.val
              /\ initial.tag = "None" => t.data.dict = HashMap_new
              /\ t.current_ptr = base]_vars

\* C9 witness: new_default_dict succeeded with an initial map that is given
\* and not empty.
C9_Witness ==
    /\ last.op = "new_default_dict"
    /\ last.result.tag = "Ok"
    /\ last.arg.initial_dict.tag = "Some"
    /\ last.arg.initial_dict.val # HashMap_new
    /\ trackers[last.arg.base.segment_index].data.dict
          = last.arg.initial_dict.val

\* C10: a segment index that has a tracker keeps it in every later state,
\* and no later creation replaces it: the tracker's dictionary mode and its
\* default value stay those it was created with.
C10_TrackersAreNeverReplaced ==
    [][\A s \in DOMAIN trackers :
          /\ s \in DOMAIN trackers'
          /\ trackers'[s].data.kind = trackers[s].data.kind
          /\ trackers[s].data.kind = "DefaultDictionary"
                => trackers'[s].data.default_value
                      = trackers[s].data.default_value]_vars

\* C10 witness: new_default_dict was refused on a segment that a Simple
\* tracker owns, and the Simple tracker is still there.
C10_Witness ==
    /\ last.op = "new_default_dict"
    /\ last.result.tag = "CantCreateDictionaryOnTakenSegment"
    /\ last.arg.base.segment_index \in DOMAIN trackers
    /\ trackers[last.arg.base.segment_index].data.kind = "SimpleDictionary"

\* C11: with an empty manager at the start, trackers added only by new_dict
\* and new_default_dict, and an allocator that returns the strictly
\* increasing indices 0, 1, 2, ... (other callers may allocate in between),
\* CantCreateDictionaryOnTakenSegment is unreachable: every creation succeeds.
C11_FreshAllocatorNeverCollides ==
    (allocator = "fresh" /\ IsCreation(last))
       => /\ last.result.tag # "CantCreateDictionaryOnTakenSegment"
          /\ last.result.tag = "Ok"

\* C11 witness: another caller took segment 0, then a dictionary was created
\* on segment 1.
C11_Witness ==
    /\ allocator = "fresh"
    /\ IsCreation(last)
    /\ last.result.tag = "Ok"
    /\ last.arg.base.segment_index = 1
    /\ DOMAIN trackers = {1}

\* The pointers of segment s that the tracker's current_ptr has moved past.
StalePointers(s) ==
    {p \in Pointers : /\ p.segment_index = s
                      /\ p.offset < trackers[s].current_ptr.offset}

\* C12: once a tracker's current_ptr has been advanced from p to another
\* pointer of the segment, get_tracker(p) and get_tracker_mut(p) return
\* MismatchedDictPtr(current_ptr, p), and no operation of the core makes p
\* resolve again.
C12_StalePointerStaysStale ==
    [][\A s \in DOMAIN trackers : \A p \in StalePointers(s) :
          /\ last'.op # "advance_current_ptr"
                => /\ s \in DOMAIN trackers'
                   /\ trackers'[s].current_ptr # p
          /\ (/\ last'.op \in {"get_tracker", "get_tracker_mut"}
              /\ last'.arg.dict_ptr = p)
                => /\ last'.result.tag = "MismatchedDictPtr"
                   /\ last'.result.val[1] = trackers[s].current_ptr
                   /\ last'.result.val[2] = p]_vars

\* C12 witness: get_tracker was given the base of a dictionary after its
\* current_ptr had been advanced.
C12_Witness ==
    /\ last.op = "get_tracker"
    /\ last.arg.dict_ptr.segment_index \in DOMAIN trackers
    /\ last.arg.dict_ptr \in StalePointers(last.arg.dict_ptr.segment_index)
    /\ last.result.tag = "MismatchedDictPtr"

\* The calls of the core (the manager's and the trackers' functions).
CoreOps ==
    {"new_dict", "new_default_dict", "get_tracker", "get_tracker_mut",
     "get_value", "insert_value", "get_dictionary_copy"}

\* C15: no operation of the core changes the current_ptr of an existing
\* tracker: get_value (also a materializing miss), insert_value,
\* get_dictionary_copy, get_tracker, get_tracker_mut and the creation calls.
C15_CoreKeepsCurrentPtr ==
    [][last'.op \in CoreOps
       => \A s \in DOMAIN trackers :
             /\ s \in DOMAIN trackers'
             /\ trackers'[s].current_ptr = trackers[s].current_ptr]_vars

\* C15 witness: a materializing get_value on a tracker whose current_ptr had
\* been advanced left the pointer where it was.
C15_Witness ==
    /\ last.op = "get_value"
    /\ <<last.arg.seg, last.arg.key>> \in materialized
    /\ trackers[last.arg.seg].current_ptr.offset = 1

\* C16: for a key k bound to v, get_value(k) returns v in Simple and in
\* Default mode and leaves the map unchanged; a Default dictionary returns
\* the stored value, not the default.
C16_HitReturnsStoredValue ==
    [][(/\ last'.op = "get_value"
        /\ last'.arg.key \in DOMAIN trackers[last'.arg.seg].data.dict)
       => /\ last'.result.tag = "Ok"
          /\ last'.result.val
                = trackers[last'.arg.seg].data.dict[last'.arg.key]
          /\ trackers'[last'.arg.seg].data.dict
                = trackers[last'.arg.seg].data.dict]_vars

\* C16 witness: a Default dictionary returned a stored value that differs
\* from its default.
C16_Witness ==
    /\ last.op = "get_value"
    /\ trackers[last.arg.seg].data.kind = "DefaultDictionary"
    /\ last.result.tag = "Ok"
    /\ last.result.val # trackers[last.arg.seg].data.default_value
    /\ <<last.arg.seg, last.arg.key>> \notin materialized

\* C17: each stored tracker's current_ptr.segment_index is the index it is
\* stored under, so get_tracker applied to the base a successful creation
\* returned resolves to the tracker that creation stored.
C17_TrackerPointsIntoItsSegment ==
    /\ \A s \in DOMAIN trackers : trackers[s].current_ptr.segment_index = s
    /\ (IsCreation(last) /\ last.result.tag = "Ok")
          => LET base == last.result.val
                 r == DictManager_get_tracker(trackers, base)
             IN  /\ r.tag = "Ok"
                 /\ r.val = trackers[base.segment_index]
                 /\ r.val.current_ptr = base
                 /\ r.val.data.kind =
                       IF last.op = "new_dict" THEN "SimpleDictionary"
                       ELSE "DefaultDictionary"

\* C17 witness: a second dictionary was created, on segment 1.
C17_Witness ==
    /\ IsCreation(last)
    /\ last.result.tag = "Ok"
    /\ last.result.val.segment_index = 1
    /\ DOMAIN trackers = {0, 1}

\* C18: a creation call that fails leaves the trackers mapping as it was,
\* but it has requested a segment: the segment count is one higher.
C18_FailedCreationStillAllocates ==
    [][(IsCreation(last') /\ last'.result.tag # "Ok")
       => /\ trackers' = trackers
          /\ num_segments' = num_segments + 1]_vars

\* C18 witness: new_dict failed on a temporary segment.
C18_Witness ==
    /\ last.op = "new_dict"
    /\ last.result.tag = "AddressInTemporarySegment"
    /\ trackers = DictManager_new
    /\ num_segments = 1

\* C19: get_value and insert_value on the tracker of one segment, and a
\* successful creation on a new segment, leave the map, the mode, the default
\* value and the current_ptr of the trackers of all other segments unchanged.
C19_SegmentsAreIsolated ==
    [][/\ last'.op \in {"get_value", "insert_value"}
          => \A s \in DOMAIN trackers \ {last'.arg.seg} :
                /\ s \in DOMAIN trackers'
                /\ trackers'[s] = trackers[s]
       /\ (IsCreation(last') /\ last'.result.tag = "Ok")
          => /\ last'.arg.base.segment_index \notin DOMAIN trackers
             /\ \A s \in DOMAIN trackers :
                   /\ s \in DOMAIN trackers'
                   /\ trackers'[s] = trackers[s]]_vars

\* C19 witness: insert_value on one of two dictionaries; the other one still
\* holds its own, different map.
C19_Witness ==
    /\ last.op = "insert_value"
    /\ \E s \in DOMAIN trackers \ {last.arg.seg} :
          /\ trackers[s].data.dict # HashMap_new
          /\ trackers[s].data.dict # trackers[last.arg.seg].data.dict

\* C13: the field prime is bit-exact: the hexadecimal numeral PRIME_STR
\* stands for P = 2^251 + 17 * 2^192 + 1, and the pair FIELD = (high, low)
\* stands for the same value as high * 2^128 + low.
C13_PrimeIsBitExact ==
    /\ prime.pos = Len(PRIME_STR) => prime.acc = P
    /\ FieldValue = P
    /\ Len(prime.out) = HexLen(FieldValue)
          => <<"0", "x">> \o prime.out = PRIME_STR

\* C13 witness: PRIME_STR was read to its end and FIELD written out in full.
C13_Witness ==
    /\ prime.pos = Len(PRIME_STR)
    /\ prime.acc = FieldValue
    /\ Len(prime.out) = HexLen(FieldValue)
    /\ Len(prime.out) = Len(PRIME_STR) - 2

\* C14: assert_felt_impl!(Felt) builds only when the backend has every
\* required operation: the whole FeltOps capability set and every trait an
\* assertion is declared for; no declared assertion is left uninstantiated.
C14_BuildChecksEveryAssertion ==
    build.status = "built"
       => /\ build.backend.methods = FeltOps
          /\ \A i \in 1..Len(assert_all_lines) :
                Satisfies(build.backend, BoundOf(assert_all_lines[i].fn),
                          assert_all_lines[i].on)
          /\ \A i \in 1..Len(Declared) :
                \E j \in 1..Len(assert_all) : assert_all[j].fn = Declared[i].fn

====
